---- MODULE Spec2Model ----
(***************************************************************************)
(* Model of one ADB device proxy of server.py: the dispatch task           *)
(* (handle_connection / AdbDeviceProxy.run), the ProxyChannel objects it   *)
(* creates, and each channel's sink task.  asyncio tasks interleave only   *)
(* at awaits that suspend, so every action below is the code between two   *)
(* such awaits.                                                            *)
(*                                                                         *)
(* The peer link accepts frames while its writer is open; the writer is    *)
(* closed by handle_connection's finally clause only.  Frames written      *)
(* afterwards are dropped by the transport and drain() raises.             *)
(*                                                                         *)
(* The ScrcpyTcpProxy of the device is modelled next to it: the tasks of   *)
(* handle_scrcpy_connection and the keep-alive tasks they create.  The two *)
(* listeners share no object, so each has a specification of its own.      *)
(***************************************************************************)
EXTENDS Integers, Sequences, FiniteSets, TLC

\* ---- bounds of the model ------------------------------------------------
MaxOpen == 2        \* OPEN frames the peer sends
MaxFrames == 3      \* frames the peer sends after the handshake
MaxTunnels == 2     \* connections accepted on the scrcpy port

\* ---- inputs ---------------------------------------------------------------
LocalIds == 7 .. 6 + MaxOpen
RemoteArgs == 0 .. MaxOpen
\* service strings as token sequences: two the host ADB server opens, one
\* it answers with FAIL, and one standing for payload bytes that are not
\* valid UTF-8
Destinations ==
    { <<"shell:", "ls">>, <<"tcp:", "80">>, <<"tcp:", "9">>, <<"\\xff">> }
Commands == {"CNXN", "OPEN", "WRTE", "OKAY", "CLSE"}

NoFrame == [cmd |-> "none", a0 |-> 0, a1 |-> 0, dest |-> <<>>]

\* the connections the scrcpy listener accepts
Tunnels == 1 .. MaxTunnels

VARIABLES
    phase,           \* position of the dispatch task
    frame,           \* message returned by recv_cmd, being handled
    cur,             \* remote_id of the channel the dispatch task is inside
    streams,         \* keys of AdbDeviceProxy.streams
    chan,            \* every ProxyChannel ever constructed, by remote_id
    next_remote_id,  \* AdbDeviceProxy.next_remote_id
    out,             \* frames written to the peer link while it was open
    peer_closed,     \* handle_connection has closed the peer writer
    nframes,         \* frames received after the handshake
    assigned,        \* remote_ids given to OPEN requests, in order
    server_started,  \* ScrcpyTcpProxy.server_started
    scrcpy_pc,       \* position of each handle_scrcpy_connection task
    shell_session    \* the shell connection each task opened for the server

proxy_vars == <<phase, frame, cur, streams, chan, next_remote_id, out,
                peer_closed, nframes, assigned>>

scrcpy_vars == <<server_started, scrcpy_pc, shell_session>>

vars == <<phase, frame, cur, streams, chan, next_remote_id, out,
          peer_closed, nframes, assigned, server_started, scrcpy_pc,
          shell_session>>

\* ---- frames ---------------------------------------------------------------
\* data is 0 for an empty payload and the number of the chunk for a WRTE
Frame(cmd, arg0, arg1, data) ==
    [cmd |-> cmd, a0 |-> arg0, a1 |-> arg1, data |-> data]

\* send_cmd on the peer writer: the frame reaches the peer unless the
\* writer was closed
Send(log, f) == IF peer_closed THEN log ELSE Append(log, f)

StartsWithShell(name) == Len(name) > 0 /\ name[1] = "shell:"

Decodable(dest) == dest # <<"\\xff">>

\* open_client_stream returns a connection (TRUE) or raises (FALSE)
HostAccepts(dest) == dest # <<"tcp:", "9">>

\* ---- ProxyChannel ---------------------------------------------------------
NewChannel(name, local_id, remote_id) ==
    [name      |-> name,
     local_id  |-> local_id,
     remote_id |-> remote_id,
     closed    |-> FALSE,
     credit    |-> 1,          \* Semaphore(0) then ready()
     pc        |-> "acquire",  \* sink task created, not yet run
     out_open  |-> TRUE,       \* self.writer not closed
     at_eof    |-> FALSE,      \* self.reader has returned b""
     nread     |-> 0,          \* chunks read from self.reader
     wrote     |-> 0,          \* payloads written to self.writer
     okays     |-> 0]          \* ready() calls made for inbound OKAY

\* the synchronous head of ProxyChannel.close(), up to await wait_closed(),
\* run by a task other than the sink task
CloseHead(c) ==
    [c EXCEPT !.closed = TRUE,
              !.credit = c.credit + 1,
              !.pc = IF c.pc = "done" THEN "done" ELSE "cancelled",
              !.out_open = FALSE]

\* mutant: the cancel the sink task sends itself ends it at wait_closed()
SinkCloseHeadCancelled(c) ==
    [c EXCEPT !.closed = TRUE,
              !.credit = c.credit + 1,
              !.pc = "cancelled",
              !.out_open = FALSE]

\* the same, run by the sink task itself: the cancel takes effect at
\* await wait_closed(), where the bare except swallows it
SinkCloseHead(c) ==
    [c EXCEPT !.closed = TRUE,
              !.credit = c.credit + 1,
              !.pc = "close_wait",
              !.out_open = FALSE]

CloseFrame(c) == Frame("CLSE", c.remote_id, c.local_id, 0)

Init ==
    /\ phase = "cnxn_recv"
    /\ frame = NoFrame
    /\ cur = 0
    /\ streams = {}
    /\ chan = << >>
    /\ next_remote_id = 1
    /\ out = << >>
    /\ peer_closed = FALSE
    /\ nframes = 0
    /\ assigned = << >>
    /\ server_started = FALSE
    /\ scrcpy_pc = [c \in Tunnels |-> "idle"]
    /\ shell_session = [c \in Tunnels |-> "none"]


\* ---- the dispatch task: handle_connection / AdbDeviceProxy.run -----------

\* The messages the peer sends.  An OPEN carries arg1 = 0 and a
\* destination; the other commands carry no payload that run() reads, and
\* CNXN no argument that it reads.
Message(cmd, a0, a1, dest) ==
    [cmd  |-> cmd,
     a0   |-> IF cmd = "CNXN" THEN 0 ELSE a0,
     a1   |-> IF cmd \in {"CNXN", "OPEN"} THEN 0 ELSE a1,
     dest |-> IF cmd = "OPEN" THEN dest ELSE << >>]

\* the peer numbers the streams it opens 7, 8, ...
PeerLocalId(n) == 6 + n

\* recv_cmd returns a message: the first one, or one of the loop
Recv ==
    /\ phase \in {"cnxn_recv", "recv"}
    /\ phase = "recv" => nframes < MaxFrames
    /\ \E cmd \in Commands, a0 \in LocalIds, a1 \in RemoteArgs,
          dest \in Destinations :
          /\ (phase = "recv" /\ cmd = "OPEN") =>
                /\ Len(assigned) < MaxOpen
                /\ a0 = PeerLocalId(Len(assigned) + 1)
          /\ frame' = Message(cmd, a0, a1, dest)
    /\ phase' = IF phase = "cnxn_recv" THEN "cnxn_got" ELSE "got"
    /\ nframes' = IF phase = "recv" THEN nframes + 1 ELSE nframes
    /\ UNCHANGED <<cur, streams, chan, next_remote_id, out, peer_closed,
                   assigned>>
    /\ UNCHANGED scrcpy_vars

\* the exception leaves run(); handle_connection logs it and closes the
\* peer writer.  Nothing else is done on the way out.
Terminated ==
    /\ phase' = "done"
    /\ frame' = NoFrame
    /\ cur' = 0
    /\ peer_closed' = TRUE

\* recv_cmd raises: peer EOF (IncompleteReadError) or magic mismatch
RecvFail ==
    /\ phase \in {"cnxn_recv", "recv"}
    /\ Terminated
    /\ UNCHANGED <<streams, chan, next_remote_id, out, nframes, assigned>>
    /\ UNCHANGED scrcpy_vars

\* self.protocol_version = 0x01000000
protocol_version == 16777216

\* self.max_data_len = 256 * 1024
max_data_len == 262144

\* mutant: the first message is answered with CNXN whatever its command
HandshakeAnyCommand ==
    /\ phase = "cnxn_got"
    /\ out' = Send(out, Frame("CNXN", protocol_version, max_data_len, 0))
    /\ phase' = "recv"
    /\ frame' = NoFrame
    /\ UNCHANGED <<cur, peer_closed>>
    /\ UNCHANGED <<streams, chan, next_remote_id, nframes, assigned>>
    /\ UNCHANGED scrcpy_vars

\* the first message: CNXN is answered with CNXN, anything else raises
Handshake ==
    /\ phase = "cnxn_got"
    /\ IF frame.cmd = "CNXN"
       THEN \* the banner payload is not modelled
            /\ out' = Send(out, Frame("CNXN", protocol_version, max_data_len, 0))
            /\ phase' = "recv"
            /\ frame' = NoFrame
            /\ UNCHANGED <<cur, peer_closed>>
       ELSE /\ Terminated
            /\ UNCHANGED out
    /\ UNCHANGED <<streams, chan, next_remote_id, nframes, assigned>>
    /\ UNCHANGED scrcpy_vars

\* mutant: the lowest remote_id that is not a key of the table
AllocLowestFree ==
    CHOOSE n \in 1 .. next_remote_id :
        /\ n \notin streams
        /\ \A m \in 1 .. n - 1 : m \in streams

\* remote_id = self.next_remote_id
AllocRemoteId == next_remote_id

\* mutant: the rejection is sent like the close of a channel
OpenRejectAsClose(local_id) == Frame("CLSE", next_remote_id, local_id, 0)

\* the reply to an OPEN whose service could not be opened
OpenRejectFrame(local_id) == Frame("CLSE", local_id, 0, 0)

\* mutant: the acknowledgement carries the ids in the peer's order
OpenAckSwapped(remote_id, local_id) == << Frame("OKAY", local_id, remote_id, 0) >>

\* the reply to an OPEN whose channel was created
OpenAckFrames(remote_id, local_id) == << Frame("OKAY", remote_id, local_id, 0) >>

\* cmd == OPEN
DispatchOPEN ==
    /\ phase = "got"
    /\ frame.cmd = "OPEN"
    /\ IF ~Decodable(frame.dest)
       THEN \* data.decode() raises outside the try block
            /\ Terminated
            /\ UNCHANGED <<streams, chan, next_remote_id, out, assigned>>
       ELSE LET rid == AllocRemoteId
                open_ok == HostAccepts(frame.dest) IN
            /\ next_remote_id' = next_remote_id + 1
            /\ assigned' = Append(assigned, rid)
            /\ IF open_ok
               THEN /\ chan' = [r \in DOMAIN chan \cup {rid} |->
                                  IF r = rid
                                  THEN NewChannel(frame.dest, frame.a0, rid)
                                  ELSE chan[r]]
                    /\ streams' = streams \cup {rid}
                    /\ out' = out \o (IF peer_closed THEN << >>
                                      ELSE OpenAckFrames(rid, frame.a0))
               ELSE /\ out' = Send(out, OpenRejectFrame(frame.a0))
                    /\ UNCHANGED <<streams, chan>>
            /\ phase' = "recv"
            /\ frame' = NoFrame
            /\ UNCHANGED <<cur, peer_closed>>
    /\ UNCHANGED nframes
    /\ UNCHANGED scrcpy_vars


\* cmd == WRTE: channel.write(data) up to await self.writer.drain()
DispatchWRTE ==
    /\ phase = "got"
    /\ frame.cmd = "WRTE"
    /\ IF frame.a1 \in streams /\ chan[frame.a1].out_open
       THEN \* the payload is handed to the service writer
            /\ phase' = "write_drain"
            /\ cur' = frame.a1
       ELSE \* no such channel: nothing.  Service writer already closed:
            \* drain() raises and close() finds the channel closed.
            /\ phase' = "recv"
            /\ cur' = 0
    /\ frame' = NoFrame
    /\ UNCHANGED <<streams, chan, next_remote_id, out, peer_closed, nframes,
                   assigned>>
    /\ UNCHANGED scrcpy_vars

\* mutant: the payload is written and no credit is returned
WriteAckMissing(c) == << >>

\* the frames ProxyChannel.write sends once the payload is drained
WriteAckFrames(c) == << Frame("OKAY", c.remote_id, c.local_id, 0) >>

\* ProxyChannel.write resumes from drain().  drained is the outcome of
\* the write to the service.
WriteDrain ==
    /\ phase = "write_drain"
    /\ \E drained \in BOOLEAN :
       LET c == chan[cur] IN
       /\ IF drained
          THEN /\ chan' = [chan EXCEPT ![cur].wrote = c.wrote + 1]
               /\ out' = out \o (IF peer_closed THEN << >>
                                 ELSE WriteAckFrames(c))
               /\ phase' = "recv"
               /\ cur' = 0
          ELSE IF c.closed
          THEN \* except: close() on a channel the sink closed meanwhile
               /\ phase' = "recv"
               /\ cur' = 0
               /\ UNCHANGED <<chan, out>>
          ELSE \* except: close(), suspended in wait_closed()
               /\ chan' = [chan EXCEPT ![cur] = CloseHead(c)]
               /\ phase' = "write_close"
               /\ UNCHANGED <<cur, out>>
    /\ UNCHANGED <<frame, streams, next_remote_id, peer_closed, nframes,
                   assigned>>
    /\ UNCHANGED scrcpy_vars

\* close() called from write() resumes and sends CLSE; the channel stays
\* in the table
WriteCloseDone ==
    /\ phase = "write_close"
    /\ out' = Send(out, CloseFrame(chan[cur]))
    /\ phase' = "recv"
    /\ cur' = 0
    /\ UNCHANGED <<frame, streams, chan, next_remote_id, peer_closed,
                   nframes, assigned>>
    /\ UNCHANGED scrcpy_vars

\* channel.ready()
Ready(c) == [c EXCEPT !.credit = c.credit + 1, !.okays = c.okays + 1]

\* mutant: the channel is looked up by arg0, the peer's id
DispatchOKAYByArg0 ==
    /\ phase = "got"
    /\ frame.cmd = "OKAY"
    /\ IF frame.a0 \in streams
       THEN chan' = [chan EXCEPT ![frame.a0] = Ready(chan[frame.a0])]
       ELSE UNCHANGED chan
    /\ phase' = "recv"
    /\ frame' = NoFrame
    /\ UNCHANGED <<cur, streams, next_remote_id, out, peer_closed, nframes,
                   assigned>>
    /\ UNCHANGED scrcpy_vars

\* cmd == OKAY
DispatchOKAY ==
    /\ phase = "got"
    /\ frame.cmd = "OKAY"
    /\ IF frame.a1 \in streams
       THEN chan' = [chan EXCEPT ![frame.a1] = Ready(chan[frame.a1])]
       ELSE UNCHANGED chan
    /\ phase' = "recv"
    /\ frame' = NoFrame
    /\ UNCHANGED <<cur, streams, next_remote_id, out, peer_closed, nframes,
                   assigned>>
    /\ UNCHANGED scrcpy_vars

\* mutant: the reply echoes the frame's ids, as the close of a channel does
UnknownCloseEcho(f) == Frame("CLSE", f.a1, f.a0, 0)

\* the reply to a CLSE for a remote_id that is not in the table
UnknownCloseFrame(f) == Frame("CLSE", f.a0, 0, 0)

\* mutant: close() without the test of self.closed
DispatchCLSEUnguarded ==
    /\ phase = "got"
    /\ frame.cmd = "CLSE"
    /\ IF frame.a1 \in streams
       THEN /\ chan' = [chan EXCEPT ![frame.a1] = CloseHead(chan[frame.a1])]
            /\ phase' = "clse_close"
            /\ cur' = frame.a1
            /\ UNCHANGED <<streams, out>>
       ELSE /\ out' = Send(out, UnknownCloseFrame(frame))
            /\ phase' = "recv"
            /\ UNCHANGED <<cur, streams, chan>>
    /\ frame' = NoFrame
    /\ UNCHANGED <<next_remote_id, peer_closed, nframes, assigned>>
    /\ UNCHANGED scrcpy_vars

\* cmd == CLSE
DispatchCLSE ==
    /\ phase = "got"
    /\ frame.cmd = "CLSE"
    /\ IF frame.a1 \in streams
       THEN IF chan[frame.a1].closed
            THEN \* close() returns at once; del self.streams[remote_id]
                 /\ streams' = streams \ {frame.a1}
                 /\ phase' = "recv"
                 /\ UNCHANGED <<cur, chan, out>>
            ELSE \* close(), suspended in wait_closed()
                 /\ chan' = [chan EXCEPT ![frame.a1] = CloseHead(chan[frame.a1])]
                 /\ phase' = "clse_close"
                 /\ cur' = frame.a1
                 /\ UNCHANGED <<streams, out>>
       ELSE /\ out' = Send(out, UnknownCloseFrame(frame))
            /\ phase' = "recv"
            /\ UNCHANGED <<cur, streams, chan>>
    /\ frame' = NoFrame
    /\ UNCHANGED <<next_remote_id, peer_closed, nframes, assigned>>
    /\ UNCHANGED scrcpy_vars

\* close() called for an inbound CLSE resumes, sends CLSE, and the entry
\* is deleted
ClseCloseDone ==
    /\ phase = "clse_close"
    /\ out' = Send(out, CloseFrame(chan[cur]))
    /\ streams' = streams \ {cur}
    /\ phase' = "recv"
    /\ cur' = 0
    /\ UNCHANGED <<frame, chan, next_remote_id, peer_closed, nframes,
                   assigned>>
    /\ UNCHANGED scrcpy_vars

\* any other command in the loop (a second CNXN): no branch matches
DispatchOther ==
    /\ phase = "got"
    /\ frame.cmd \notin {"OPEN", "WRTE", "OKAY", "CLSE"}
    /\ phase' = "recv"
    /\ frame' = NoFrame
    /\ UNCHANGED <<cur, streams, chan, next_remote_id, out, peer_closed,
                   nframes, assigned>>
    /\ UNCHANGED scrcpy_vars

\* ---- the sink task of a channel ------------------------------------------
\* Sink tasks run only while the dispatch task is suspended in an await.
DispatchSuspended == phase \notin {"cnxn_got", "got"}

\* mutant: the sink reads again without taking a credit
SinkAcquireFree(r) ==
    /\ DispatchSuspended
    /\ r \in DOMAIN chan
    /\ chan[r].pc = "acquire"
    /\ ~chan[r].closed
    /\ chan' = [chan EXCEPT ![r].pc = "read"]
    /\ UNCHANGED <<phase, frame, cur, streams, next_remote_id, out,
                   peer_closed, nframes, assigned>>
    /\ UNCHANGED scrcpy_vars

\* while not self.closed: await self.ready_to_send.acquire()
SinkAcquire(r) ==
    /\ DispatchSuspended
    /\ r \in DOMAIN chan
    /\ chan[r].pc = "acquire"
    /\ IF chan[r].closed
       THEN chan' = [chan EXCEPT ![r].pc = "done"]
       ELSE /\ chan[r].credit > 0
            /\ chan' = [chan EXCEPT ![r].credit = chan[r].credit - 1,
                                    ![r].pc = "read"]
    /\ UNCHANGED <<phase, frame, cur, streams, next_remote_id, out,
                   peer_closed, nframes, assigned>>
    /\ UNCHANGED scrcpy_vars

\* mutant: the frame is built from the chunk of the previous round
DataFrameStale(c) == Frame("WRTE", c.remote_id, c.local_id, c.nread)

\* the WRTE frame for the chunk just read
DataFrame(c) == Frame("WRTE", c.remote_id, c.local_id, c.nread + 1)

\* self.reader.read() returns a chunk; WRTE is sent.  A send on the closed
\* peer writer raises, which ends the loop and closes the channel.
SinkReadData(r) ==
    /\ DispatchSuspended
    /\ r \in DOMAIN chan
    /\ chan[r].pc = "read"
    /\ ~chan[r].at_eof
    /\ IF peer_closed
       THEN /\ chan' = [chan EXCEPT ![r] =
                           SinkCloseHead([chan[r] EXCEPT !.nread = @ + 1])]
            /\ UNCHANGED out
       ELSE /\ chan' = [chan EXCEPT ![r].nread = chan[r].nread + 1,
                                    ![r].pc = "acquire"]
            /\ out' = Append(out, DataFrame(chan[r]))
    /\ UNCHANGED <<phase, frame, cur, streams, next_remote_id, peer_closed,
                   nframes, assigned>>
    /\ UNCHANGED scrcpy_vars

\* mutant: end of file closes every channel, a shell channel too
SinkReadEOFCloses(r) ==
    /\ DispatchSuspended
    /\ r \in DOMAIN chan
    /\ chan[r].pc = "read"
    /\ chan' = [chan EXCEPT ![r] = SinkCloseHead([chan[r] EXCEPT !.at_eof = TRUE])]
    /\ UNCHANGED <<phase, frame, cur, streams, next_remote_id, out,
                   peer_closed, nframes, assigned>>
    /\ UNCHANGED scrcpy_vars

\* self.reader.read() returns b"": a shell channel sleeps, any other
\* leaves the loop and closes
SinkReadEOF(r) ==
    /\ DispatchSuspended
    /\ r \in DOMAIN chan
    /\ chan[r].pc = "read"
    /\ chan' = [chan EXCEPT ![r] =
                   IF StartsWithShell(chan[r].name)
                   THEN [chan[r] EXCEPT !.pc = "sleep", !.at_eof = TRUE]
                   ELSE SinkCloseHead([chan[r] EXCEPT !.at_eof = TRUE])]
    /\ UNCHANGED <<phase, frame, cur, streams, next_remote_id, out,
                   peer_closed, nframes, assigned>>
    /\ UNCHANGED scrcpy_vars

\* mutant: the exception read() raised leaves the sink task uncaught and
\* takes the proxy down
SinkReadErrEndsProxy(r) ==
    /\ DispatchSuspended
    /\ r \in DOMAIN chan
    /\ chan[r].pc = "read"
    /\ ~chan[r].at_eof
    /\ chan' = [chan EXCEPT ![r] = SinkCloseHead(chan[r])]
    /\ Terminated
    /\ UNCHANGED <<streams, next_remote_id, out, nframes, assigned>>
    /\ UNCHANGED scrcpy_vars

\* self.reader.read() raises: the loop is left and the channel closed
SinkReadErr(r) ==
    /\ DispatchSuspended
    /\ r \in DOMAIN chan
    /\ chan[r].pc = "read"
    /\ ~chan[r].at_eof
    /\ chan' = [chan EXCEPT ![r] = SinkCloseHead(chan[r])]
    /\ UNCHANGED <<phase, frame, cur, streams, next_remote_id, out,
                   peer_closed, nframes, assigned>>
    /\ UNCHANGED scrcpy_vars

\* asyncio.sleep(0.1) is over: continue, back to the loop test
SinkWake(r) ==
    /\ DispatchSuspended
    /\ r \in DOMAIN chan
    /\ chan[r].pc = "sleep"
    /\ chan' = [chan EXCEPT ![r].pc = "acquire"]
    /\ UNCHANGED <<phase, frame, cur, streams, next_remote_id, out,
                   peer_closed, nframes, assigned>>
    /\ UNCHANGED scrcpy_vars

\* close() called by the sink task resumes after wait_closed() and sends
\* CLSE
SinkCloseDone(r) ==
    /\ DispatchSuspended
    /\ r \in DOMAIN chan
    /\ chan[r].pc = "close_wait"
    /\ out' = Send(out, CloseFrame(chan[r]))
    /\ chan' = [chan EXCEPT ![r].pc = "done"]
    /\ UNCHANGED <<phase, frame, cur, streams, next_remote_id, peer_closed,
                   nframes, assigned>>
    /\ UNCHANGED scrcpy_vars

Next ==
    \/ Recv
    \/ RecvFail
    \/ Handshake
    \/ DispatchOPEN
    \/ DispatchWRTE
    \/ WriteDrain
    \/ WriteCloseDone
    \/ DispatchOKAY
    \/ DispatchCLSE
    \/ ClseCloseDone
    \/ DispatchOther
    \/ \E r \in 1 .. MaxOpen :
          \/ SinkAcquire(r)
          \/ SinkReadData(r)
          \/ SinkReadEOF(r)
          \/ SinkReadErr(r)
          \/ SinkWake(r)
          \/ SinkCloseDone(r)

Spec == Init /\ [][Next]_vars


\* the code of run() that follows the return of recv_cmd
Handle ==
    \/ Handshake
    \/ DispatchOPEN
    \/ DispatchWRTE
    \/ DispatchOKAY
    \/ DispatchCLSE
    \/ DispatchOther

\* The event loop runs a task that is ready: the dispatch task once
\* recv_cmd has returned, a sink task once its wait_closed() has ended.
FairSpec ==
    /\ Spec
    /\ WF_vars(Handle)
    /\ \A r \in 1 .. MaxOpen : WF_vars(SinkCloseDone(r))

\* ---- ScrcpyTcpProxy: the tasks of handle_scrcpy_connection ---------------
\* scrcpy_pc: "idle" (not accepted), "start_open" (in open_connection or the
\* transport request of ensure_scrcpy_server_running), "start_shell" (server
\* request written, awaiting its status), "start_sleep" (in sleep(2)),
\* "tunnel_open" (opening the localabstract:scrcpy connection), "forward",
\* "closed".  shell_session: "none", "open" (server request written on a
\* connection that is not closed), "closed".

\* a connection is accepted; the handler runs to its first await:
\* ensure_scrcpy_server_running returns at once when the flag is set
ScrcpyAccept(c) ==
    /\ scrcpy_pc[c] = "idle"
    /\ scrcpy_pc' = [scrcpy_pc EXCEPT ![c] =
                        IF server_started THEN "tunnel_open" ELSE "start_open"]
    /\ UNCHANGED <<server_started, shell_session>>
    /\ UNCHANGED proxy_vars

\* open_connection and host:transport succeed and the server request is
\* written, or one of them fails and ensure_scrcpy_server_running returns
ScrcpyStartRequest(c) ==
    /\ scrcpy_pc[c] = "start_open"
    /\ \E ok \in BOOLEAN :
          IF ok
          THEN /\ scrcpy_pc' = [scrcpy_pc EXCEPT ![c] = "start_shell"]
               /\ shell_session' = [shell_session EXCEPT ![c] = "open"]
          ELSE /\ scrcpy_pc' = [scrcpy_pc EXCEPT ![c] = "tunnel_open"]
               /\ UNCHANGED shell_session
    /\ UNCHANGED server_started
    /\ UNCHANGED proxy_vars

\* the status of the server request: OKAY, or anything else, which closes
\* the connection and returns
ScrcpyStartStatus(c) ==
    /\ scrcpy_pc[c] = "start_shell"
    /\ \E ok \in BOOLEAN :
          IF ok
          THEN /\ scrcpy_pc' = [scrcpy_pc EXCEPT ![c] = "start_sleep"]
               /\ UNCHANGED shell_session
          ELSE /\ scrcpy_pc' = [scrcpy_pc EXCEPT ![c] = "tunnel_open"]
               /\ shell_session' = [shell_session EXCEPT ![c] = "closed"]
    /\ UNCHANGED server_started
    /\ UNCHANGED proxy_vars

\* sleep(2) is over: the keep-alive task is created and the flag set
ScrcpyStartDone(c) ==
    /\ scrcpy_pc[c] = "start_sleep"
    /\ server_started' = TRUE
    /\ scrcpy_pc' = [scrcpy_pc EXCEPT ![c] = "tunnel_open"]
    /\ UNCHANGED shell_session
    /\ UNCHANGED proxy_vars

\* _keep_server_alive: the shell connection ends; finally closes the
\* writer and clears the flag
KeepServerAliveEnd(c) ==
    /\ shell_session[c] = "open"
    /\ scrcpy_pc[c] \notin {"start_shell", "start_sleep"}
    /\ shell_session' = [shell_session EXCEPT ![c] = "closed"]
    /\ server_started' = FALSE
    /\ UNCHANGED scrcpy_pc
    /\ UNCHANGED proxy_vars

\* the connection to localabstract:scrcpy is set up, or the handler ends
ScrcpyTunnelOpen(c) ==
    /\ scrcpy_pc[c] = "tunnel_open"
    /\ \E ok \in BOOLEAN :
          scrcpy_pc' = [scrcpy_pc EXCEPT ![c] =
                           IF ok THEN "forward" ELSE "closed"]
    /\ UNCHANGED <<server_started, shell_session>>
    /\ UNCHANGED proxy_vars

\* both forward_data coroutines have ended; finally closes the writers
ScrcpyForwardEnd(c) ==
    /\ scrcpy_pc[c] = "forward"
    /\ scrcpy_pc' = [scrcpy_pc EXCEPT ![c] = "closed"]
    /\ UNCHANGED <<server_started, shell_session>>
    /\ UNCHANGED proxy_vars

ScrcpyNext ==
    \E c \in Tunnels :
        \/ ScrcpyAccept(c)
        \/ ScrcpyStartRequest(c)
        \/ ScrcpyStartStatus(c)
        \/ ScrcpyStartDone(c)
        \/ KeepServerAliveEnd(c)
        \/ ScrcpyTunnelOpen(c)
        \/ ScrcpyForwardEnd(c)

ScrcpySpec == Init /\ [][ScrcpyNext]_vars

\* ---- counting frames on the peer link ------------------------------------
OutCount(cmd, arg0) ==
    Cardinality({i \in 1 .. Len(out) : out[i].cmd = cmd /\ out[i].a0 = arg0})

OutHas(f) == \E i \in 1 .. Len(out) : out[i] = f

\* the WRTE frames of channel r on the peer link, in the order sent
WrteOf(r) == SelectSeq(out, LAMBDA f : f.cmd = "WRTE" /\ f.a0 = r)


\* ---- C1 ------------------------------------------------------------------
\* C1: for every channel, the WRTE frames emitted for it exceed the inbound
\* OKAY frames that granted it a credit by at most one.
C1_AtMostOneUnackedWrite ==
    \A r \in DOMAIN chan : OutCount("WRTE", r) - chan[r].okays <= 1

\* a second WRTE went out after the peer's OKAY, and the sink waits again
C1_Witness ==
    \E r \in DOMAIN chan :
        /\ OutCount("WRTE", r) = 2
        /\ chan[r].okays = 1
        /\ chan[r].pc = "acquire"
        /\ chan[r].credit = 0

\* ---- C2 ------------------------------------------------------------------
\* C2: once the proxy has terminated, exactly one CLSE(remote_id, local_id)
\* has been sent for every channel ever created.
C2_ExactlyOneClsePerStream ==
    phase = "done" =>
        \A r \in DOMAIN chan : OutCount("CLSE", r) = 1

\* ---- C3 ------------------------------------------------------------------
\* C3: once the proxy has terminated, every channel in the table is closed,
\* its sink task has ended and its service connection is closed.
C3_TerminationClosesStreams ==
    phase = "done" =>
        \A r \in streams :
            /\ chan[r].closed
            /\ chan[r].pc \in {"done", "cancelled"}
            /\ ~chan[r].out_open

\* ---- C4 ------------------------------------------------------------------
\* C4: the remote_ids given to OPEN requests start at 1 and increase
\* strictly in the order the requests are handled.
C4_RemoteIdsIncrease ==
    /\ Len(assigned) > 0 => assigned[1] = 1
    /\ \A i, j \in 1 .. Len(assigned) : i < j => assigned[i] < assigned[j]

\* a second OPEN was handled after channel 1 was closed and removed
C4_Witness ==
    /\ Len(assigned) = 2
    /\ 1 \in DOMAIN chan
    /\ 1 \notin streams
    /\ 2 \in streams

\* ---- C5 ------------------------------------------------------------------
\* C5: whenever the dispatch task waits for the next frame, a channel is in
\* the table exactly if its closed flag is false.
C5_InTableIffNotClosed ==
    phase = "recv" =>
        \A r \in DOMAIN chan : (r \in streams) <=> ~chan[r].closed

\* ---- C6 ------------------------------------------------------------------
\* C6: the OKAY(remote_id, local_id) frames on the peer link of a channel
\* are its open acknowledgement plus one per payload written to its
\* service; the step that completes a write appends exactly that OKAY, and
\* no frame is received between handing over the payload and that step.
C6_OneOkayPerWrite ==
    /\ [](\A r \in DOMAIN chan : OutCount("OKAY", r) = 1 + chan[r].wrote)
    /\ [][phase = "write_drain" =>
            /\ nframes' = nframes
            /\ chan'[cur].wrote # chan[cur].wrote =>
                  /\ chan'[cur].wrote = chan[cur].wrote + 1
                  /\ out' = Append(out, Frame("OKAY", cur, chan[cur].local_id, 0))
         ]_vars

\* a payload was written and acknowledged
C6_Witness ==
    \E r \in DOMAIN chan :
        /\ chan[r].wrote = 1
        /\ OutCount("OKAY", r) = 2
        /\ phase = "recv"

\* ---- C7 ------------------------------------------------------------------
\* C7: handling an OPEN whose service the host ADB server refuses appends
\* exactly CLSE(a0, 0) to the peer link, leaves the table and the channels
\* unchanged, advances next_remote_id by one and returns to the loop.
C7_OpenRejected ==
    [][(/\ phase = "got"
        /\ frame.cmd = "OPEN"
        /\ Decodable(frame.dest)
        /\ ~HostAccepts(frame.dest))
       => /\ out' = Append(out, Frame("CLSE", frame.a0, 0, 0))
          /\ streams' = streams
          /\ chan' = chan
          /\ next_remote_id' = next_remote_id + 1
          /\ phase' = "recv"
      ]_vars

\* the first OPEN was rejected and the loop went on to open channel 2
C7_Witness ==
    /\ 1 \notin DOMAIN chan
    /\ 2 \in streams
    /\ OutHas(Frame("CLSE", 7, 0, 0))
    /\ next_remote_id = 3

\* ---- C8 ------------------------------------------------------------------
\* C8: every WRTE(remote_id, local_id) on the peer link is preceded by an
\* OKAY(remote_id, local_id).
C8_OkayBeforeWrite ==
    \A j \in 1 .. Len(out) :
        out[j].cmd = "WRTE" =>
            \E i \in 1 .. j - 1 : out[i] = Frame("OKAY", out[j].a0, out[j].a1, 0)

\* the sink's first chunk went out right after the open acknowledgement
C8_Witness ==
    \E j \in 2 .. Len(out) :
        /\ out[j].cmd = "WRTE"
        /\ out[j - 1] = Frame("OKAY", out[j].a0, out[j].a1, 0)
        /\ chan[out[j].a0].wrote = 0


\* ---- C9 ------------------------------------------------------------------
\* C9: handling a CLSE whose arg1 is not a key of the table appends
\* CLSE(a0, 0) and changes neither the table nor any channel; handling one
\* whose arg1 is a key closes that channel, changes no other channel, and
\* the handler ends with exactly that key removed.
C9_CloseRouting ==
    [][/\ (phase = "got" /\ frame.cmd = "CLSE" /\ frame.a1 \notin streams) =>
            /\ out' = Append(out, Frame("CLSE", frame.a0, 0, 0))
            /\ streams' = streams
            /\ chan' = chan
            /\ phase' = "recv"
       /\ (phase = "got" /\ frame.cmd = "CLSE" /\ frame.a1 \in streams) =>
            /\ chan'[frame.a1].closed
            /\ \A r \in DOMAIN chan \ {frame.a1} : chan'[r] = chan[r]
            /\ \/ streams' = streams \ {frame.a1} /\ phase' = "recv"
               \/ streams' = streams /\ phase' = "clse_close" /\ cur' = frame.a1
       /\ phase = "clse_close" =>
            /\ chan[cur].closed
            /\ \/ streams' = streams \ {cur} /\ phase' = "recv"
               \/ streams' = streams /\ phase' = "clse_close" /\ cur' = cur
      ]_vars

\* channel 1 was closed and removed by a CLSE, and a later CLSE for it was
\* answered as unknown
C9_Witness ==
    /\ Len(assigned) = 1
    /\ 1 \in DOMAIN chan
    /\ 1 \notin streams
    /\ OutHas(Frame("CLSE", 1, 7, 0))
    /\ OutHas(Frame("CLSE", 8, 0, 0))

\* ---- C10 -----------------------------------------------------------------
\* C10: once the sink of a channel that is not a shell channel has read
\* end of file, the channel is closed and, unless the peer link is closed
\* first, CLSE(remote_id, local_id) reaches the peer link.
C10_EofLeadsToClse ==
    \A r \in 1 .. MaxOpen :
        (/\ r \in DOMAIN chan
         /\ chan[r].at_eof
         /\ ~StartsWithShell(chan[r].name))
        ~> (/\ r \in DOMAIN chan
            /\ chan[r].closed
            /\ peer_closed \/ OutHas(CloseFrame(chan[r])))

\* the sink closed its channel at end of file, sent CLSE and ended
C10_Witness ==
    \E r \in DOMAIN chan :
        /\ chan[r].at_eof
        /\ ~StartsWithShell(chan[r].name)
        /\ chan[r].pc = "done"
        /\ ~peer_closed
        /\ OutHas(CloseFrame(chan[r]))

\* ---- C11 -----------------------------------------------------------------
\* C11: the step in which the sink of a shell channel reads end of file
\* neither closes the channel nor puts a frame on the peer link; a shell
\* channel becomes closed only while an inbound CLSE for it is handled or
\* by an I/O error (the write to the service fails, read() raises, the
\* send of WRTE raises); and CLSE(remote_id, local_id) is put on the peer
\* link only for a channel that is already closed.
C11_ShellEofNeverCloses ==
    [][\A r \in DOMAIN chan :
          StartsWithShell(chan[r].name) =>
            /\ (~chan[r].at_eof /\ chan'[r].at_eof) =>
                   /\ ~chan'[r].closed
                   /\ out' = out
            /\ (~chan[r].closed /\ chan'[r].closed) =>
                   \/ phase = "got" /\ frame.cmd = "CLSE" /\ frame.a1 = r
                   \/ phase = "write_drain" /\ cur = r
                   \/ chan[r].pc = "read" /\ ~chan'[r].at_eof
            /\ (/\ Len(out') = Len(out) + 1
                /\ out'[Len(out')] = CloseFrame(chan[r])) => chan[r].closed
      ]_vars

\* a shell channel read end of file, slept and is back at the loop test:
\* it is open and no CLSE was sent for it
C11_Witness ==
    \E r \in DOMAIN chan :
        /\ StartsWithShell(chan[r].name)
        /\ chan[r].at_eof
        /\ chan[r].pc = "acquire"
        /\ ~chan[r].closed
        /\ ~peer_closed
        /\ OutCount("CLSE", r) = 0

\* ---- C12 -----------------------------------------------------------------
\* C12: a shell channel whose sink has read end of file, and which is not
\* closed, is paused or reading again: its sink never waits for a credit
\* before the retry.
C12_ShellRetryTakesNoCredit ==
    \A r \in DOMAIN chan :
        (/\ StartsWithShell(chan[r].name)
         /\ chan[r].at_eof
         /\ ~chan[r].closed) => chan[r].pc \in {"sleep", "read"}

\* ---- C13 -----------------------------------------------------------------
\* C13: until the first message has been handled the peer link carries no
\* frame, no channel exists and no remote_id has been allocated; a first
\* message that is not CNXN ends the proxy with the peer link closed and
\* still no frame; a first CNXN is answered with one CNXN frame, which is
\* the first frame on the peer link and the only CNXN frame ever sent.
C13_HandshakeFirst ==
    /\ [](/\ phase \in {"cnxn_recv", "cnxn_got"} =>
                /\ out = << >>
                /\ chan = << >>
                /\ streams = {}
                /\ next_remote_id = 1
          /\ out # << >> =>
                /\ out[1] = Frame("CNXN", protocol_version, max_data_len, 0)
                /\ OutCount("CNXN", protocol_version) = 1)
    /\ [][phase = "cnxn_got" =>
            IF frame.cmd = "CNXN"
            THEN /\ out' = << Frame("CNXN", protocol_version, max_data_len, 0) >>
                 /\ phase' = "recv"
                 /\ ~peer_closed'
            ELSE /\ out' = << >>
                 /\ phase' = "done"
                 /\ peer_closed'
                 /\ chan' = << >>
         ]_vars

\* the CNXN reply was followed by the acknowledgement of an OPEN
C13_Witness ==
    /\ Len(out) >= 2
    /\ out[1].cmd = "CNXN"
    /\ out[2] = Frame("OKAY", 1, 7, 0)
    /\ OutCount("CNXN", protocol_version) = 1

\* ---- C14 -----------------------------------------------------------------
\* C14: whichever tasks call close() on a channel, and in whatever order,
\* at most one CLSE(remote_id, local_id) is on the peer link and it is
\* there only for a closed channel whose service writer is closed; a
\* closed channel stays closed, close() called again for an inbound CLSE
\* changes nothing of the channel and sends nothing, and the credit of a
\* closed channel changes only by an inbound OKAY.
C14_CloseIdempotent ==
    /\ [](\A r \in DOMAIN chan :
             /\ OutCount("CLSE", r) <= 1
             /\ OutCount("CLSE", r) = 1 =>
                   chan[r].closed /\ ~chan[r].out_open)
    /\ [][\A r \in DOMAIN chan :
             chan[r].closed =>
               /\ chan'[r].closed
               /\ ~chan'[r].out_open
               /\ (/\ phase = "got"
                   /\ frame.cmd = "CLSE"
                   /\ frame.a1 = r
                   /\ r \in streams) => chan'[r] = chan[r] /\ out' = out
               /\ chan'[r].credit # chan[r].credit =>
                      phase = "got" /\ frame.cmd = "OKAY" /\ frame.a1 = r
         ]_vars

\* the sink closed channel r at end of file and sent its CLSE, and close()
\* was called again for an inbound CLSE, which removed the entry
C14_Witness ==
    \E r \in DOMAIN chan :
        /\ chan[r].at_eof
        /\ chan[r].pc = "done"
        /\ r \notin streams
        /\ OutCount("CLSE", r) = 1

\* ---- C15 -----------------------------------------------------------------
\* C15: the step in which the sink of channel r leaves its loop and closes
\* the channel, and the step in which it then sends CLSE, change no field
\* of any other channel and nothing of the dispatch task: its position,
\* the message it holds, the table, the remote_id counter and the state of
\* the peer link stay as they are, so the loop goes on reading frames.
C15_SinkFailureIsLocal ==
    [][\A r \in DOMAIN chan :
          (\/ chan[r].pc = "read" /\ chan'[r].pc = "close_wait"
           \/ chan[r].pc = "close_wait" /\ chan'[r].pc = "done") =>
            /\ \A q \in DOMAIN chan \ {r} : chan'[q] = chan[q]
            /\ DOMAIN chan' = DOMAIN chan
            /\ phase' = phase
            /\ frame' = frame
            /\ streams' = streams
            /\ next_remote_id' = next_remote_id
            /\ peer_closed' = peer_closed
      ]_vars

\* read() raised in the sink of channel r, which closed the channel and
\* sent CLSE; channel q is open, and the dispatch task handled an OKAY
\* for it and is reading the next frame
C15_Witness ==
    \E r, q \in DOMAIN chan :
        /\ r # q
        /\ chan[r].closed
        /\ chan[r].pc = "done"
        /\ ~chan[r].at_eof
        /\ OutHas(CloseFrame(chan[r]))
        /\ ~chan[q].closed
        /\ chan[q].okays = 1
        /\ phase = "recv"

\* ---- C16 -----------------------------------------------------------------
\* C16: at most one shell connection carrying the scrcpy server request is
\* open at a time: of the tunnel connections handled together, one only
\* writes the request while no server session has ended.
C16_ServerStartedOnce ==
    Cardinality({c \in Tunnels : shell_session[c] = "open"}) <= 1

\* ---- C17 -----------------------------------------------------------------
\* C17: a sink cancelled by close() stays ended and no WRTE of its channel
\* is put on the peer link afterwards; and in the step that removes a key
\* from the table the channel is closed, its service writer is closed, its
\* sink has ended, and, unless the peer link is closed, its CLSE is on the
\* peer link at the end of the step.
C17_CloseCompleteBeforeRemoval ==
    [][/\ \A r \in DOMAIN chan :
             chan[r].pc = "cancelled" =>
               /\ chan'[r].pc = "cancelled"
               /\ ~(/\ Len(out') = Len(out) + 1
                    /\ out'[Len(out')].cmd = "WRTE"
                    /\ out'[Len(out')].a0 = r)
       /\ \A r \in streams \ streams' :
             /\ chan[r].closed
             /\ ~chan[r].out_open
             /\ chan[r].pc \in {"cancelled", "done"}
             /\ peer_closed \/ \E i \in 1 .. Len(out') :
                                   out'[i] = CloseFrame(chan[r])
      ]_vars

\* ---- C18 -----------------------------------------------------------------
\* C18: every WRTE frame on the peer link belongs to a channel; the i-th
\* WRTE frame of channel r carries the i-th chunk its sink read and the
\* channel's own local_id; while the peer link is open the frames of r are
\* as many as the chunks read, and once it is closed at most the one chunk
\* whose send raised is missing.
C18_ChunksInOrderPerChannel ==
    /\ \A i \in 1 .. Len(out) :
          out[i].cmd = "WRTE" => out[i].a0 \in DOMAIN chan
    /\ \A r \in DOMAIN chan :
          LET w == WrteOf(r) IN
          /\ \A i \in 1 .. Len(w) :
                /\ w[i].data = i
                /\ w[i].a1 = chan[r].local_id
          /\ Len(w) <= chan[r].nread
          /\ chan[r].nread <= Len(w) + (IF peer_closed THEN 1 ELSE 0)

\* two sinks ran interleaved: chunk 1 of channel 1, then chunk 1 of
\* channel 2, then chunk 2 of channel 1
C18_Witness ==
    \E i, j, k \in 1 .. Len(out) :
        /\ i < j
        /\ j < k
        /\ out[i] = Frame("WRTE", 1, 7, 1)
        /\ out[j] = Frame("WRTE", 2, 8, 1)
        /\ out[k] = Frame("WRTE", 1, 7, 2)

\* ---- C19 -----------------------------------------------------------------
\* C19: handling an OKAY sends nothing and changes no table entry; when
\* its arg1 is a key it adds one credit to that channel and changes no
\* other channel, otherwise it changes no channel.  Handling a WRTE whose
\* arg1 is not a key sends nothing and changes nothing; one whose arg1 is
\* a key hands the payload to that channel's service writer, and the rest
\* of write() changes that channel only and sends frames carrying its
\* remote_id only.  arg0 plays no part.
C19_RoutedByArg1 ==
    [][/\ (phase = "got" /\ frame.cmd = "OKAY") =>
            /\ out' = out
            /\ streams' = streams
            /\ next_remote_id' = next_remote_id
            /\ phase' = "recv"
            /\ IF frame.a1 \in streams
               THEN chan' = [chan EXCEPT ![frame.a1] =
                               [chan[frame.a1] EXCEPT !.credit = @ + 1,
                                                      !.okays = @ + 1]]
               ELSE chan' = chan
       /\ (phase = "got" /\ frame.cmd = "WRTE") =>
            /\ out' = out
            /\ streams' = streams
            /\ next_remote_id' = next_remote_id
            /\ chan' = chan
            /\ IF frame.a1 \in streams /\ chan[frame.a1].out_open
               THEN phase' = "write_drain" /\ cur' = frame.a1
               ELSE phase' = "recv"
       /\ (phase \in {"write_drain", "write_close"} /\ phase' # phase) =>
            /\ \A q \in DOMAIN chan \ {cur} : chan'[q] = chan[q]
            /\ chan'[cur].wrote \in {chan[cur].wrote, chan[cur].wrote + 1}
            /\ streams' = streams
            /\ \A i \in Len(out) + 1 .. Len(out') : out'[i].a0 = cur
      ]_vars

\* both channels are in the table and an OKAY with arg1 = 2 gave its
\* credit to channel 2, none to channel 1
C19_Witness ==
    /\ {1, 2} \subseteq streams
    /\ chan[2].okays = 1
    /\ chan[2].credit + chan[2].nread >= 2
    /\ chan[1].okays = 0
    /\ chan[1].credit + chan[1].nread <= 1

\* ---- C20 -----------------------------------------------------------------
\* C20: on the peer link no WRTE and no OKAY carrying the remote_id of a
\* channel comes after the CLSE(remote_id, local_id) of that channel.
C20_NothingAfterClse ==
    \A r \in DOMAIN chan :
        \A i, j \in 1 .. Len(out) :
            (i < j /\ out[i] = CloseFrame(chan[r])) =>
                ~(out[j].cmd \in {"WRTE", "OKAY"} /\ out[j].a0 = r)

====
